---- MODULE Spec2Model ----
(***************************************************************************)
(* Model of the GrsAI API client (src/api_client.py).                      *)
(*                                                                         *)
(* GrsaiAPI._make_request is modelled as a state machine: one HTTP attempt *)
(* is issued (Send), the server's answer or a transport exception arrives  *)
(* (Respond) and is handled by the try/except body of the retry loop, a    *)
(* backoff sleep ends (Wake), or the for loop runs out (LoopExit).         *)
(*                                                                         *)
(* Text (response bodies) is a sequence of one-character strings, so that  *)
(* startswith, slicing and JSON parsing are computed, not assumed.         *)
(*                                                                         *)
(* gpt_image_generate_image and flux_generate_image are modelled by a      *)
(* second machine (GenSpec): the payload is built, self._make_request      *)
(* returns a decoded response or raises, the response is checked, and the  *)
(* result URLs are downloaded, by the workers of a thread pool for the     *)
(* batch method and in the calling thread for the single-result method.    *)
(* PayloadSpec runs the payload builder alone over all argument values.    *)
(*                                                                         *)
(* ClientSpec is the lifetime of a client: the constructor, then calls of  *)
(* _make_request.  NodeSpec is execute of a generation node of             *)
(* src/flux_nodes.py with the fan-out of _execute_generation, and          *)
(* UploadSpec is one call of upload_file or upload_file_zh of              *)
(* src/upload.py.                                                          *)
(***************************************************************************)
EXTENDS Integers, Sequences, FiniteSets, TLC

(***************************************************************************)
(* Bounds of the model.                                                    *)
(***************************************************************************)
\* largest value of the configuration entry "max_retries" that is explored
MaxConfigRetries == 3

(***************************************************************************)
(* Text.                                                                   *)
(***************************************************************************)
\* the framing literal tested by response.text.startswith("data: ")
DataPrefix == <<"d", "a", "t", "a", ":", " ">>

\* str.startswith
StartsWith(s, p) == /\ Len(s) >= Len(p)
                    /\ SubSeq(s, 1, Len(p)) = p

\* the slice s[n:]
SliceFrom(s, n) == SubSeq(s, n + 1, Len(s))

(***************************************************************************)
(* json.loads, restricted to documents written with the characters         *)
(*   d a t e r o : space { } " 1                                           *)
(* Over these characters a JSON document is: an object with no member or   *)
(* with one member (no comma is available), a string without escapes, or a *)
(* number made of the digit 1 with an optional exponent; spaces are the    *)
(* only insignificant whitespace.  A parsed value is represented by its    *)
(* canonical text (the document without insignificant whitespace), which   *)
(* is one-to-one with the values of these documents.                       *)
(***************************************************************************)
ParseFailure == [ok |-> FALSE, next |-> 0, val |-> <<>>, isObj |-> FALSE,
                 hasKey |-> FALSE, key |-> <<>>, member |-> <<>>]

Scalar(v, n) == [ok |-> TRUE, next |-> n, val |-> v, isObj |-> FALSE,
                 hasKey |-> FALSE, key |-> <<>>, member |-> <<>>]

RECURSIVE SkipWs(_, _)
SkipWs(s, i) == IF i <= Len(s) /\ s[i] = " " THEN SkipWs(s, i + 1) ELSE i

\* index of the closing quote of a string whose content starts at j, 0 if none
RECURSIVE ScanString(_, _)
ScanString(s, j) == IF j > Len(s) THEN 0
                    ELSE IF s[j] = "\"" THEN j
                    ELSE ScanString(s, j + 1)

\* first index at or after j that is not a digit
RECURSIVE ScanDigits(_, _)
ScanDigits(s, j) == IF j <= Len(s) /\ s[j] = "1" THEN ScanDigits(s, j + 1) ELSE j

ParseString(s, i) ==
    LET close == ScanString(s, i + 1)
    IN  IF close = 0 THEN ParseFailure
        ELSE [Scalar(SubSeq(s, i, close), close + 1)
                EXCEPT !.key = SubSeq(s, i + 1, close - 1)]

ParseNumber(s, i) ==
    LET intEnd == ScanDigits(s, i)
        expEnd == IF intEnd + 1 <= Len(s) /\ s[intEnd] = "e" /\ s[intEnd + 1] = "1"
                  THEN ScanDigits(s, intEnd + 1)
                  ELSE intEnd
    IN  Scalar(SubSeq(s, i, expEnd - 1), expEnd)

RECURSIVE ParseValue(_, _)
ParseValue(s, i) ==
    IF i > Len(s) THEN ParseFailure
    ELSE IF s[i] = "\"" THEN ParseString(s, i)
    ELSE IF s[i] = "1" THEN ParseNumber(s, i)
    ELSE IF s[i] = "{" THEN
        LET j == SkipWs(s, i + 1)
        IN  IF j > Len(s) THEN ParseFailure
            ELSE IF s[j] = "}"
            THEN [Scalar(<<"{", "}">>, j + 1) EXCEPT !.isObj = TRUE]
            ELSE IF s[j] # "\"" THEN ParseFailure
            ELSE
                LET k == ParseString(s, j)
                    c == SkipWs(s, k.next)
                IN  IF ~k.ok \/ c > Len(s) THEN ParseFailure
                    ELSE IF s[c] # ":" THEN ParseFailure
                    ELSE
                        LET v == ParseValue(s, SkipWs(s, c + 1))
                            e == SkipWs(s, v.next)
                        IN  IF ~v.ok \/ e > Len(s) THEN ParseFailure
                            ELSE IF s[e] # "}" THEN ParseFailure
                            ELSE [ok |-> TRUE, next |-> e + 1,
                                  val |-> <<"{">> \o k.val \o <<":">> \o v.val \o <<"}">>,
                                  isObj |-> TRUE, hasKey |-> TRUE,
                                  key |-> k.key, member |-> v.val]
    ELSE ParseFailure

\* json.loads(text): a value, or ok = FALSE for json.JSONDecodeError
JsonLoads(s) ==
    LET v == ParseValue(s, SkipWs(s, 1))
    IN  IF v.ok /\ SkipWs(s, v.next) = Len(s) + 1
        THEN [v EXCEPT !.next = 0]
        ELSE ParseFailure

(***************************************************************************)
(* What one HTTP attempt can meet: a response (status code and body text)  *)
(* or an exception raised by session.post / session.get.                   *)
(***************************************************************************)
EmptyObject == <<"{", "}">>
ObjectA1    == <<"{", "\"", "a", "\"", ":", "1", "}">>
ErrorObject == <<"{", "\"", "e", "r", "r", "o", "r", "\"", ":", "\"", "a", "\"", "}">>
ErrorString == <<"\"", "e", "r", "r", "o", "r", "\"">>

\* bodies served with status 200
OkBodies ==
    { EmptyObject,
      ObjectA1,
      <<"1">>,
      <<>>,
      <<"{">>,
      DataPrefix \o EmptyObject,
      DataPrefix \o <<" ">> \o ObjectA1 \o <<" ">>,
      DataPrefix \o DataPrefix \o EmptyObject,
      DataPrefix \o <<"{">>,
      DataPrefix,
      <<"d", "a", "t", "a", ":">> \o EmptyObject,
      <<" ">> \o DataPrefix \o EmptyObject }

\* bodies served with an error status
ErrBodies ==
    { <<>>, EmptyObject, ErrorObject, ErrorString, DataPrefix \o ErrorObject }

Statuses == {200, 204, 401, 404, 429, 500, 503}

\* exception classes of requests.exceptions, and one class outside of it
ExcClasses == {"requests.Timeout", "requests.ConnectTimeout",
               "requests.ConnectionError", "Exception"}

Response(code, text) == [exc |-> "none", status_code |-> code, text |-> text]
Raises(cls)          == [exc |-> cls, status_code |-> 0, text |-> <<>>]

NoOutcome == Raises("pending")

Outcomes ==
    {Response(200, b) : b \in OkBodies}
    \cup {Response(c, b) : c \in Statuses \ {200}, b \in ErrBodies}
    \cup {Raises(c) : c \in ExcClasses}

(***************************************************************************)
(* Errors.  kind is the class of a raised exception or, for GrsaiAPIError, *)
(* which of its messages it carries; status and detail are the status code *)
(* and the server's error text inside the message; cause is the kind of    *)
(* the exception a message was formatted from.                             *)
(***************************************************************************)
Error(kind, status, detail) ==
    [kind |-> kind, status |-> status, detail |-> detail, cause |-> "none"]

NoError == Error("none", 0, <<>>)

GrsaiKinds == {"AuthError", "RateLimitError", "ServerError", "RequestError",
               "TimeoutError", "ConnectionError", "TransportError",
               "RetriesExhausted"}

\* utils.format_error_message(e, context): a generic message that carries
\* the message of e
FormatErrorMessage(e) ==
    [kind |-> "TransportError", status |-> e.status, detail |-> e.detail,
     cause |-> e.kind]

\* isinstance(e, requests.exceptions.Timeout): ConnectTimeout derives from
\* both ConnectionError and Timeout
IsTimeout(e) == e.kind \in {"requests.Timeout", "requests.ConnectTimeout"}

\* isinstance(e, requests.exceptions.ConnectionError)
IsConnectionError(e) ==
    e.kind \in {"requests.ConnectionError", "requests.ConnectTimeout"}

(***************************************************************************)
(* The body of the retry loop.                                             *)
(***************************************************************************)
\* config.get_config("max_retries", 3): cfg is <<>> when the entry is unset
DefaultMaxRetries == 3
GetConfig(cfg, default) == IF cfg = <<>> THEN default ELSE cfg[1]

\* a loop that runs once more than range(max_retries)
LoopContinues_Inclusive(a, m) == a <= m

\* for attempt in range(max_retries)
LoopContinues(a, m) == a < m

\* a retry test that still sleeps on the last pass
CanRetry_NoMinusOne(a, m) == a < m

\* a retry test that is always true
CanRetry_Always(a, m) == TRUE

\* if attempt < max_retries - 1
CanRetry(a, m) == a < m - 1

\* time.sleep(2**attempt), in seconds
Backoff(a) == 2 ^ a

\* a success test that accepts every 2xx status
IsSuccessStatus_Any2xx(code) == code \in 200..299

\* response.status_code == 200
IsSuccessStatus(code) == code = 200

\* a framing removal that strips the literal as often as it occurs in front
RECURSIVE StripFraming_Repeated(_)
StripFraming_Repeated(text) ==
    IF StartsWith(text, DataPrefix)
    THEN StripFraming_Repeated(SliceFrom(text, 6))
    ELSE text

\* json_data: response.text[6:] if it starts with "data: ", else response.text
StripFraming(text) ==
    IF StartsWith(text, DataPrefix) THEN SliceFrom(text, 6) ELSE text

\* json.loads(json_data)
Decode(text) == JsonLoads(StripFraming(text))

\* the text appended to "API请求失败: <status>": error_data['error'] when
\* response.json() is an object with that key, nothing when response.json()
\* or the lookup raises (bare except: pass)
ErrorDetail(text) ==
    LET d == JsonLoads(text)
    IN  IF d.ok /\ d.isObj /\ d.hasKey /\ d.key = <<"e", "r", "r", "o", "r">>
        THEN d.member
        ELSE <<>>

\* how control leaves one pass of the loop body
Return(v)   == [t |-> "return", value |-> v, exc |-> NoError, delay |-> 0]
Raise(e)    == [t |-> "raise", value |-> ParseFailure, exc |-> e, delay |-> 0]
Continue(d) == [t |-> "continue", value |-> ParseFailure, exc |-> NoError, delay |-> d]

\* the try block: the request, then the if/elif chain on the status code
TryBody(o, a, m) ==
    IF o.exc # "none" THEN Raise(Error(o.exc, 0, <<>>))
    ELSE IF IsSuccessStatus(o.status_code) THEN
        LET d == Decode(o.text)
        IN  IF d.ok THEN Return(d) ELSE Raise(Error("JSONDecodeError", 0, <<>>))
    ELSE IF o.status_code = 401 THEN Raise(Error("AuthError", 0, <<>>))
    ELSE IF o.status_code = 429 THEN Raise(Error("RateLimitError", 0, <<>>))
    ELSE IF o.status_code >= 500 THEN
        IF CanRetry(a, m) THEN Continue(Backoff(a))
        ELSE Raise(Error("ServerError", o.status_code, <<>>))
    ELSE Raise(Error("RequestError", o.status_code, ErrorDetail(o.text)))

\* the except clauses, in source order; the last one, except Exception,
\* matches every exception raised in the try block, GrsaiAPIError included
ExceptClauses(e, a, m) ==
    IF IsTimeout(e) THEN
        IF CanRetry(a, m) THEN Continue(Backoff(a))
        ELSE Raise(Error("TimeoutError", 0, <<>>))
    ELSE IF IsConnectionError(e) THEN
        IF CanRetry(a, m) THEN Continue(Backoff(a))
        ELSE Raise(Error("ConnectionError", 0, <<>>))
    ELSE
        IF CanRetry(a, m) THEN Continue(Backoff(a))
        ELSE Raise(FormatErrorMessage(e))

\* one pass of the loop body for the outcome o of attempt a
LoopBody(o, a, m) ==
    LET r == TryBody(o, a, m)
    IN  IF r.t = "raise" THEN ExceptClauses(r.exc, a, m) ELSE r

(***************************************************************************)
(* Python values, as far as the generation methods look at them.  s is the *)
(* text of a str; n is the number of an int, a bool (0 or 1) or a float    *)
(* (in tenths), and the length of a list.                                  *)
(***************************************************************************)
PyNone     == [ty |-> "NoneType", s |-> <<>>, n |-> 0]
PyStr(t)   == [ty |-> "str", s |-> t, n |-> 0]
PyInt(i)   == [ty |-> "int", s |-> <<>>, n |-> i]
PyBool(b)  == [ty |-> "bool", s |-> <<>>, n |-> IF b THEN 1 ELSE 0]
PyFloat(t) == [ty |-> "float", s |-> <<>>, n |-> t]
PyList(k)  == [ty |-> "list", s |-> <<>>, n |-> k]

PyNumeric == {"int", "bool", "float"}

\* v == w: numbers compare by value across int, bool and float, any other
\* value only with a value of its own type
PyEq(v, w) ==
    IF v.ty \in PyNumeric /\ w.ty \in PyNumeric
    THEN (IF v.ty = "float" THEN v.n ELSE 10 * v.n)
            = (IF w.ty = "float" THEN w.n ELSE 10 * w.n)
    ELSE v = w

(***************************************************************************)
(* The client object: GrsaiAPI.__init__ and the headers of a request.      *)
(***************************************************************************)
RECURSIVE LStrip(_)
LStrip(t) == IF t # <<>> /\ Head(t) = " " THEN LStrip(Tail(t)) ELSE t

RECURSIVE RStrip(_)
RStrip(t) ==
    IF t # <<>> /\ t[Len(t)] = " " THEN RStrip(SubSeq(t, 1, Len(t) - 1)) ELSE t

\* str.strip()
Strip(t) == RStrip(LStrip(t))

\* a constructor that only refuses the empty string and None
KeyAccepted_NoStrip(k) == k.ty = "str" /\ k.s # <<>>

\* the test of __init__: not (not api_key or not api_key.strip())
KeyAccepted(k) == k.ty = "str" /\ k.s # <<>> /\ Strip(k.s) # <<>>

Bearer == <<"B", "e", "a", "r", "e", "r", " ">>

\* a header built from the stripped key
AuthorizationHeader_Stripped(k) == Bearer \o Strip(k.s)

\* f"Bearer {self.api_key}"
AuthorizationHeader(k) == Bearer \o k.s

SkPrefix == <<"s", "k", "-">>
KeySk     == SkPrefix \o <<"a">>
KeyPadded == <<" ">> \o SkPrefix \o <<"b">> \o <<" ">>

(***************************************************************************)
(* State of one call of GrsaiAPI._make_request.                            *)
(***************************************************************************)
VARIABLES
    config,       \* the configuration entry "max_retries": <<>> or <<n>>
    max_retries,  \* the local max_retries
    attempt,      \* the loop variable
    pc,           \* "start", "loop", "waiting", "sleeping", "returned", "raised"
    outcome,      \* what the latest HTTP attempt met
    log,          \* the HTTP attempts and sleeps of the call, in order
    result,       \* the returned value
    error         \* the exception that left the call

reqVars == <<config, max_retries, attempt, pc, outcome, log, result, error>>

(***************************************************************************)
(* State of one call of gpt_image_generate_image or flux_generate_image.   *)
(***************************************************************************)
VARIABLES
    op,           \* "gpt" or "flux": which of the two methods is called
    args,         \* the arguments of the call
    payload,      \* the local payload: a dict, as a function on its keys
    gpc,          \* where the call is
    response,     \* what self._make_request returned
    tasks,        \* the futures of the thread pool, by index into resultsUrls
    pil_images,   \* the local pil_images
    image_urls,   \* the local image_urls
    errors,       \* the local errors
    downloads,    \* the URLs handed to download_image, in order
    ret,          \* the returned value
    gerror        \* the exception that left the call

genVars == <<op, args, payload, gpc, response, tasks, pil_images, image_urls,
             errors, downloads, ret, gerror>>

(***************************************************************************)
(* State of the client object over its lifetime.                           *)
(***************************************************************************)
VARIABLES
    ctor_api_key, \* the argument api_key of GrsaiAPI.__init__
    self_api_key, \* self.api_key; None while no client has been constructed
    sent,         \* the Authorization headers of the HTTP attempts so far
    calls         \* the number of calls of _make_request so far

clientVars == <<ctor_api_key, self_api_key, sent, calls>>

(***************************************************************************)
(* State of one call of execute of a generation node.                      *)
(***************************************************************************)
VARIABLES
    node,         \* the class of the node
    num_images,   \* the input num_images
    input_seed,   \* the input seed
    npc,          \* where the call is
    seeds,        \* the local seeds of _execute_generation
    futures,      \* the futures of the pool, by index into seeds
    results_pil,  \* the local results_pil
    result_urls,  \* the local result_urls
    node_errors,  \* the local errors
    out           \* what execute returned

nodeVars == <<node, num_images, input_seed, npc, seeds, futures, results_pil,
              result_urls, node_errors, out>>

(***************************************************************************)
(* State of one call of upload_file or upload_file_zh.                     *)
(***************************************************************************)
VARIABLES
    fn,            \* "upload_file" or "upload_file_zh"
    up_args,       \* the arguments api_key and file_path as passed
    up_api_key,    \* the local api_key
    file_path,     \* the local file_path
    upc,           \* where the call is
    effective_key, \* the local effective_key
    token,         \* result["data"] of the token negotiation
    trace,         \* the checks and network requests made, in order
    up_ret,        \* the returned value
    up_error       \* the exception that left the call

upVars == <<fn, up_args, up_api_key, file_path, upc, effective_key, token,
            trace, up_ret, up_error>>

\* what default_config.get_api_key() returns, for the nodes and the uploads
VARIABLE cfg_api_key

vars == <<reqVars, genVars, clientVars, nodeVars, upVars, cfg_api_key>>

\* what an action of _make_request leaves alone
outsideRequest == <<genVars, nodeVars, upVars, cfg_api_key>>

\* what an action of a generation method leaves alone
outsideGeneration == <<reqVars, clientVars, nodeVars, upVars, cfg_api_key>>

\* a client has been constructed with the key k
ClientReady(k) ==
    /\ ctor_api_key = PyStr(k)
    /\ self_api_key = PyStr(k)
    /\ sent = {}
    /\ calls = 1

\* no node is executing
NodeIdle ==
    /\ node = "none"
    /\ num_images = 0
    /\ input_seed = <<>>
    /\ npc = "idle"
    /\ seeds = <<>>
    /\ futures = <<>>
    /\ results_pil = <<>>
    /\ result_urls = <<>>
    /\ node_errors = <<>>
    /\ out = <<>>

\* no upload is under way
UpIdle ==
    /\ fn = "none"
    /\ up_args = <<>>
    /\ up_api_key = PyNone
    /\ file_path = <<>>
    /\ upc = "idle"
    /\ effective_key = <<>>
    /\ token = <<>>
    /\ trace = <<>>
    /\ up_ret = <<>>
    /\ up_error = NoError

\* neither a node nor an upload is under way
NoGlue == NodeIdle /\ UpIdle /\ cfg_api_key = PyNone


\* no call of a generation method is under way
GenIdle ==
    /\ op = "none"
    /\ args = <<>>
    /\ payload = <<>>
    /\ gpc = "idle"
    /\ response = <<>>
    /\ tasks = <<>>
    /\ pil_images = <<>>
    /\ image_urls = <<>>
    /\ errors = <<>>
    /\ downloads = <<>>
    /\ ret = <<>>
    /\ gerror = NoError

HttpEntry(a)     == [type |-> "http", attempt |-> a, dur |-> 0, met |-> "pending"]
SleepEntry(a, d) == [type |-> "sleep", attempt |-> a, dur |-> d, met |-> "-"]

\* what an attempt met, for the log
Met(o) ==
    IF o.exc # "none" THEN o.exc
    ELSE IF o.status_code = 200
         THEN (IF JsonLoads(IF StartsWith(o.text, DataPrefix)
                            THEN SubSeq(o.text, 7, Len(o.text)) ELSE o.text).ok
               THEN "200" ELSE "200-undecodable")
    ELSE IF o.status_code = 401 THEN "401"
    ELSE IF o.status_code = 429 THEN "429"
    ELSE IF o.status_code >= 500 THEN "5xx"
    ELSE "other-status"

Init ==
    /\ config \in {<<>>} \cup {<<n>> : n \in 0..MaxConfigRetries}
    /\ max_retries = 0
    /\ attempt = 0
    /\ pc = "start"
    /\ outcome = NoOutcome
    /\ log = <<>>
    /\ result = ParseFailure
    /\ error = NoError
    /\ GenIdle
    /\ ClientReady(KeySk)
    /\ NoGlue

\* entry of _make_request: the locals are resolved
Enter ==
    /\ pc = "start"
    /\ max_retries' = GetConfig(config, DefaultMaxRetries)
    /\ attempt' = 0
    /\ pc' = "loop"
    /\ UNCHANGED <<config, outcome, log, result, error>>
    /\ UNCHANGED <<clientVars, outsideRequest>>

\* session.post / session.get is called for the current attempt
Send ==
    /\ pc = "loop"
    /\ LoopContinues(attempt, max_retries)
    /\ log' = Append(log, HttpEntry(attempt))
    /\ pc' = "waiting"
    /\ sent' = sent \cup {AuthorizationHeader(self_api_key)}
    /\ UNCHANGED <<config, max_retries, attempt, outcome, result, error>>
    /\ UNCHANGED <<ctor_api_key, self_api_key, calls>>
    /\ UNCHANGED outsideRequest

\* the request ends with a response or an exception and the loop body handles it
Respond ==
    /\ pc = "waiting"
    /\ \E o \in Outcomes :
        LET r == LoopBody(o, attempt, max_retries)
            seen == [log EXCEPT ![Len(log)].met = Met(o)]
        IN  /\ outcome' = o
            /\ CASE r.t = "return" ->
                      /\ pc' = "returned"
                      /\ result' = r.value
                      /\ log' = seen
                      /\ UNCHANGED error
                 [] r.t = "raise" ->
                      /\ pc' = "raised"
                      /\ error' = r.exc
                      /\ log' = seen
                      /\ UNCHANGED result
                 [] r.t = "continue" ->
                      /\ pc' = "sleeping"
                      /\ log' = Append(seen, SleepEntry(attempt, r.delay))
                      /\ UNCHANGED <<result, error>>
    /\ UNCHANGED <<config, max_retries, attempt>>
    /\ UNCHANGED <<clientVars, outsideRequest>>

\* a loop that tries again without counting the attempt
NextAttempt_Same(a) == a

\* for attempt in range(max_retries): the next value of the range
NextAttempt(a) == a + 1

\* time.sleep returns and continue takes the next value of range(max_retries)
Wake ==
    /\ pc = "sleeping"
    /\ attempt' = NextAttempt(attempt)
    /\ pc' = "loop"
    /\ UNCHANGED <<config, max_retries, outcome, log, result, error>>
    /\ UNCHANGED <<clientVars, outsideRequest>>

\* range(max_retries) is used up: the raise after the loop
LoopExit ==
    /\ pc = "loop"
    /\ ~LoopContinues(attempt, max_retries)
    /\ pc' = "raised"
    /\ error' = Error("RetriesExhausted", 0, <<>>)
    /\ UNCHANGED <<config, max_retries, attempt, outcome, log, result>>
    /\ UNCHANGED <<clientVars, outsideRequest>>

Next == Enter \/ Send \/ Respond \/ Wake \/ LoopExit

Spec == Init /\ [][Next]_vars

\* the call under the assumption that the thread keeps running, that every
\* HTTP call ends with a response or an exception (Respond: the request has
\* a timeout) and that every sleep ends (Wake)
LiveSpec ==
    /\ Init
    /\ [][Next]_vars
    /\ WF_vars(Enter)
    /\ WF_vars(Send)
    /\ WF_vars(Respond)
    /\ WF_vars(Wake)
    /\ WF_vars(LoopExit)

TypeOK ==
    /\ pc \in {"start", "loop", "waiting", "sleeping", "returned", "raised"}
    /\ attempt \in Nat
    /\ max_retries \in Nat
    /\ outcome \in Outcomes \cup {NoOutcome}

(***************************************************************************)
(* The request payload of the two generation methods.                      *)
(***************************************************************************)
\* an optional parameter that is put into the payload whenever it is truthy
Included_Truthy(value) ==
    /\ value # PyNone
    /\ ~PyEq(value, PyStr(<<>>))
    /\ ~PyEq(value, PyInt(0))

\* if value is not None and value != ""
Included(value) ==
    /\ value # PyNone
    /\ ~PyEq(value, PyStr(<<>>))

\* payload = {"model": ..., "prompt": ..., "urls": ..., "shutProgress": True}
RequiredPayload(a) ==
    [k \in {"model", "prompt", "urls", "shutProgress"} |->
        CASE k = "model" -> a.model
          [] k = "prompt" -> a.prompt
          [] k = "urls" -> a.urls
          [] k = "shutProgress" -> PyBool(TRUE)]

\* optional_params of each method, in the order of the dict literal
OptionalParams(o, a) ==
    IF o = "gpt"
    THEN << <<"size", a.size>>, <<"variants", a.variants>> >>
    ELSE << <<"seed", a.seed>>,
            <<"aspectRatio", a.aspect_ratio>>,
            <<"output_format", a.output_format>>,
            <<"safetyTolerance", a.safety_tolerance>>,
            <<"promptUpsampling", a.prompt_upsampling>>,
            <<"guidance", a.guidance_scale>>,
            <<"steps", a.num_inference_steps>> >>

\* payload[key] = value
SetItem(d, key, value) ==
    [k \in DOMAIN d \cup {key} |-> IF k = key THEN value ELSE d[k]]

\* for key, value in optional_params.items(): ...
RECURSIVE AddOptional(_, _)
AddOptional(d, items) ==
    IF items = <<>> THEN d
    ELSE AddOptional(IF Included(Head(items)[2])
                     THEN SetItem(d, Head(items)[1], Head(items)[2])
                     ELSE d,
                     Tail(items))

BuildPayload(o, a) == AddOptional(RequiredPayload(a), OptionalParams(o, a))

\* argument values
TextRatio == <<"1", ":", "1">>
TextPng   == <<"p", "n", "g">>
TextModel == <<"m">>
TextPrompt == <<"p">>

StrArgs   == {PyNone, PyStr(<<>>), PyStr(TextRatio)}
FmtArgs   == {PyNone, PyStr(<<>>), PyStr(TextPng)}
IntArgs   == {PyNone, PyInt(0), PyInt(2)}
BoolArgs  == {PyNone, PyBool(FALSE), PyBool(TRUE)}
FloatArgs == {PyNone, PyFloat(0), PyFloat(35)}
UrlsArgs  == {PyList(0), PyList(1)}

Args(urls, size, variants, seed, ar, fmt, tol, ups, gs, steps) ==
    [model |-> PyStr(TextModel), prompt |-> PyStr(TextPrompt), urls |-> urls,
     size |-> size, variants |-> variants,
     seed |-> seed, aspect_ratio |-> ar, output_format |-> fmt,
     safety_tolerance |-> tol, prompt_upsampling |-> ups,
     guidance_scale |-> gs, num_inference_steps |-> steps]

\* the calls of gpt_image_generate_image: the parameters of the other method
\* do not exist and are held at None
GptArgs ==
    {Args(u, size, variants, PyNone, PyNone, PyNone, PyNone, PyNone, PyNone, PyNone) :
        u \in UrlsArgs, size \in StrArgs, variants \in IntArgs}

\* the calls of flux_generate_image
FluxArgs ==
    {Args(x[1], PyNone, PyNone, x[2], x[3], x[4], x[5], x[6], x[7], x[8]) :
        x \in UrlsArgs \X IntArgs \X StrArgs \X FmtArgs \X IntArgs \X BoolArgs
              \X FloatArgs \X IntArgs}

\* no response has been received
NoResponse == [isDict |-> FALSE, keys |-> {}, status |-> PyNone,
               resultsIsList |-> FALSE, results |-> <<>>, url |-> PyNone,
               received |-> FALSE]

\* the request machine is not used
ReqIdle ==
    /\ config = <<>>
    /\ max_retries = 0
    /\ attempt = 0
    /\ pc = "idle"
    /\ outcome = NoOutcome
    /\ log = <<>>
    /\ result = ParseFailure
    /\ error = NoError
    /\ ClientReady(KeySk)

\* a generation method has been called with arguments a
Called(o, a) ==
    /\ op = o
    /\ args = a
    /\ payload = <<>>
    /\ gpc = "build"
    /\ response = NoResponse
    /\ tasks = <<>>
    /\ pil_images = <<>>
    /\ image_urls = <<>>
    /\ errors = <<>>
    /\ downloads = <<>>
    /\ ret = <<>>
    /\ gerror = NoError

\* the payload is built
Build ==
    /\ gpc = "build"
    /\ payload' = BuildPayload(op, args)
    /\ gpc' = "request"
    /\ UNCHANGED <<op, args, response, tasks, pil_images, image_urls, errors,
                   downloads, ret, gerror>>
    /\ UNCHANGED outsideGeneration

\* the payload builder alone, over all argument values
PayloadInit ==
    /\ ReqIdle
    /\ NoGlue
    /\ \E o \in {"gpt", "flux"} :
         \E a \in (IF o = "gpt" THEN GptArgs ELSE FluxArgs) : Called(o, a)

PayloadNext == Build

PayloadSpec == PayloadInit /\ [][PayloadNext]_vars

(***************************************************************************)
(* What self._make_request hands to a generation method: the decoded       *)
(* response, or an exception.  A decoded response is described by what the *)
(* methods look at: whether it is a dict, which keys it has, and the       *)
(* values of the keys status, results and url.                             *)
(***************************************************************************)
\* largest number of entries of "results" that is explored
MaxResults == 3

TextSucceeded == <<"s", "u", "c", "c", "e", "e", "d", "e", "d">>
TextFailed    == <<"f", "a", "i", "l", "e", "d">>
TextHttp      == <<"h", "t", "t", "p">>

UrlA == TextHttp \o <<":", "a">>
UrlB == TextHttp \o <<"s", ":", "b">>

\* one entry of results: a dict with or without the key url
ResultItem(u) == [hasUrl |-> TRUE, url |-> u]
ItemWithoutUrl == [hasUrl |-> FALSE, url |-> PyNone]

Envelope(keys, status, isList, results, url) ==
    [isDict |-> TRUE, keys |-> keys, status |-> status,
     resultsIsList |-> isList, results |-> results, url |-> url,
     received |-> TRUE]

\* a decoded response that is not a dict (a number, a string)
NotADict == [Envelope({}, PyNone, FALSE, <<>>, PyNone) EXCEPT !.isDict = FALSE]

Succeeded(items) ==
    Envelope({"status", "id", "results"}, PyStr(TextSucceeded), TRUE, items, PyNone)

RECURSIVE SeqsUpTo(_, _)
SeqsUpTo(S, n) ==
    IF n = 0 THEN {<<>>}
    ELSE LET shorter == SeqsUpTo(S, n - 1)
         IN  shorter \cup {Append(q, x) : q \in shorter, x \in S}

\* responses of the batch endpoint
BatchEnvelopes ==
    {Succeeded(items) : items \in SeqsUpTo({ResultItem(PyStr(UrlA)), ResultItem(PyStr(UrlB))},
                                           MaxResults)}
    \cup { Succeeded(<<ResultItem(PyStr(UrlA)), ItemWithoutUrl>>),
           Envelope({"status", "id"}, PyStr(TextSucceeded), FALSE, <<>>, PyNone),
           Envelope({"status", "id", "results"}, PyStr(TextSucceeded), FALSE, <<>>, PyNone),
           Envelope({"status", "id"}, PyStr(TextFailed), FALSE, <<>>, PyNone),
           Envelope({"status"}, PyStr(TextFailed), FALSE, <<>>, PyNone),
           Envelope({"id"}, PyNone, FALSE, <<>>, PyNone) }

\* responses of the single-result endpoint
UrlValues == {PyStr(UrlA), PyStr(UrlB), PyStr(<<"n", "o", "t">>),
              PyStr(<<"h", "t", "t">>), PyStr(<<>>), PyInt(1), PyNone}

SingleEnvelopes ==
    {Envelope({"url"}, PyNone, FALSE, <<>>, u) : u \in UrlValues}
    \cup {Envelope({}, PyNone, FALSE, <<>>, PyNone)}

Envelopes == BatchEnvelopes \cup SingleEnvelopes \cup {NotADict}

\* the exceptions that leave self._make_request: GrsaiAPIError with one of
\* its messages, or an exception raised before its try block
RequestErrors == {Error("AuthError", 0, <<>>),
                  [FormatErrorMessage(Error("ServerError", 500, <<>>))
                      EXCEPT !.cause = "ServerError"],
                  Error("Exception", 0, <<>>)}

\* the messages of the GrsaiAPIError raised by the two generation methods
GenerationKinds == {"GenerationFailed", "InvalidUrlFormat", "DownloadReturnedNone",
                    "DownloadProcessingError"}

\* isinstance(e, GrsaiAPIError)
IsGrsaiAPIError(e) == e.kind \in GrsaiKinds \cup GenerationKinds

\* except Exception as e: re-raise a GrsaiAPIError, wrap anything else
Rewrap(e) == IF IsGrsaiAPIError(e) THEN e ELSE FormatErrorMessage(e)

(***************************************************************************)
(* gpt_image_generate_image after the request.                             *)
(***************************************************************************)
Raised(e)   == [t |-> "raise", exc |-> e, urls |-> <<>>]
Checked(us) == [t |-> "ok", exc |-> NoError, urls |-> us]

\* lines 184-189: status, results and the list of result URLs; a missing key
\* is a KeyError, a value of the wrong type a TypeError
CheckEnvelope(r) ==
    IF ~r.isDict THEN Raised(Error("TypeError", 0, <<>>))
    ELSE IF "status" \notin r.keys THEN Raised(Error("KeyError", 0, <<"s">>))
    ELSE IF ~PyEq(r.status, PyStr(TextSucceeded)) THEN
        IF "id" \in r.keys THEN Raised(Error("GenerationFailed", 0, <<>>))
        ELSE Raised(Error("KeyError", 0, <<"i">>))
    ELSE IF "results" \notin r.keys THEN Raised(Error("KeyError", 0, <<"r">>))
    ELSE IF ~r.resultsIsList THEN Raised(Error("TypeError", 0, <<>>))
    ELSE IF \E i \in DOMAIN r.results : ~r.results[i].hasUrl
         THEN Raised(Error("KeyError", 0, <<"u">>))
    ELSE Checked([i \in DOMAIN r.results |-> r.results[i].url])

\* ThreadPoolExecutor(max_workers=n) raises ValueError unless n > 0
PoolOpens(n) == n > 0

\* what download_image does with a URL: it returns an image, returns None,
\* or raises (a timeout)
DownloadFates == {"image", "none", "timeout"}

Image(u, i) == [src |-> u, task |-> i]
NoImage == Image(PyNone, 0)

\* thread_download_image(url) as run for task i: the pair (image, url), or
\* GrsaiAPIError raised by the handler of its try block
ThreadDownloadImage(u, i, fate) ==
    IF fate = "image"
    THEN [ok |-> TRUE, image |-> Image(u, i), url |-> u, exc |-> NoError]
    ELSE [ok |-> FALSE, image |-> NoImage, url |-> u,
          exc |-> [Error("DownloadProcessingError", 0, <<>>)
                     EXCEPT !.cause = IF fate = "none" THEN "DownloadReturnedNone"
                                      ELSE fate]]

\* a future: fate is what download_image does for it, from the moment it is
\* called; res is what the future holds once the task is done
NewTask(u) == [url |-> u, state |-> "unsubmitted", fate |-> "-",
               consumed |-> FALSE, res |-> ThreadDownloadImage(u, 0, "none")]

\* a pool that cancels a task once another task has failed
TaskResult_CancelAfterFailure(ts, i) ==
    IF \E j \in DOMAIN ts : j # i /\ ts[j].state = "done" /\ ~ts[j].res.ok
    THEN ThreadDownloadImage(ts[i].url, i, "cancelled")
    ELSE ThreadDownloadImage(ts[i].url, i, ts[i].fate)

\* what the future of task i holds when the task ends: the outcome of its own
\* run of thread_download_image, whatever the other tasks did
TaskResult(ts, i) == ThreadDownloadImage(ts[i].url, i, ts[i].fate)

\* a pool that runs a failed task again
Runnable_RetryFailed(t) ==
    \/ t.state = "queued"
    \/ t.state = "done" /\ ~t.res.ok /\ ~t.consumed

\* a worker takes a work item off the queue of the pool: each submitted call
\* is run once
Runnable(t) == t.state = "queued"

\* the two entries the loop over as_completed appends to errors
EntryFailed    == "generation failed"
EntryException == "generation exception"

Lists(imgs, us, errs) == [images |-> imgs, urls |-> us, errors |-> errs]

\* a loop body that reports the cause of the failure
CollectOne_WithCause(acc, res) ==
    IF res.ok
    THEN Lists(Append(acc.images, res.image), Append(acc.urls, res.url), acc.errors)
    ELSE Lists(acc.images, acc.urls, Append(acc.errors, res.exc.cause))

\* a loop body that drops failures
CollectOne_DropFailure(acc, res) ==
    IF res.ok
    THEN Lists(Append(acc.images, res.image), Append(acc.urls, res.url), acc.errors)
    ELSE acc

\* a loop body that appends the URL in front of the list of URLs
CollectOne_UrlInFront(acc, res) ==
    IF res.ok
    THEN Lists(Append(acc.images, res.image), <<res.url>> \o acc.urls, acc.errors)
    ELSE Lists(acc.images, acc.urls, Append(acc.errors, EntryException))

\* the body of the loop over as_completed for one future: future.result()
\* raises the exception of a failed task, which the handler turns into an
\* entry of errors; the result of a task that did not raise is a pair, never
\* an Exception, and is appended to the two lists
CollectOne(acc, res) ==
    IF res.ok
    THEN Lists(Append(acc.images, res.image), Append(acc.urls, res.url), acc.errors)
    ELSE Lists(acc.images, acc.urls, Append(acc.errors, EntryException))

\* as_completed has futures left to yield
MoreToCollect(ts) == \E i \in DOMAIN ts : ~ts[i].consumed

\* a call that returns at the first failure without waiting for the pool
MayReturn_AtFirstFailure(ts) ==
    \/ \E i \in DOMAIN ts : ts[i].consumed /\ ~ts[i].res.ok
    \/ \A i \in DOMAIN ts : ts[i].consumed /\ ts[i].state = "done"

\* the loop over as_completed has ended and the with block has left the
\* executor: shutdown(wait=True) has joined every worker
MayReturn(ts) ==
    /\ ~MoreToCollect(ts)
    /\ \A i \in DOMAIN ts : ts[i].state = "done"

(***************************************************************************)
(* flux_generate_image after the request.                                  *)
(***************************************************************************)
\* a test that accepts every str
UrlAccepted_AnyStr(v) == v.ty = "str"

\* isinstance(image_url, str) and image_url.startswith("http")
UrlAccepted(v) == v.ty = "str" /\ StartsWith(v.s, TextHttp)

\* lines 276-279
CheckUrl(r) ==
    IF ~r.isDict THEN Raised(Error("TypeError", 0, <<>>))
    ELSE IF "url" \notin r.keys THEN Raised(Error("KeyError", 0, <<"u">>))
    ELSE IF ~UrlAccepted(r.url) THEN Raised(Error("InvalidUrlFormat", 0, <<>>))
    ELSE Checked(<<r.url>>)

(***************************************************************************)
(* One call of a generation method: Build, the request, then the checks    *)
(* and the downloads.  The pool's workers (TaskStart, TaskFinish) run       *)
(* concurrently with the calling thread (Submit, Collect, ReturnBatch).     *)
(***************************************************************************)
GenArgs(o) ==
    IF o = "gpt"
    THEN {Args(PyList(0), PyStr(TextRatio), PyNone,
               PyNone, PyNone, PyNone, PyNone, PyNone, PyNone, PyNone)}
    ELSE {Args(PyList(1), PyNone, PyNone,
               PyInt(0), PyStr(TextRatio), PyNone, PyNone, PyNone, PyNone, PyNone)}

GenInit ==
    /\ ReqIdle
    /\ NoGlue
    /\ \E o \in {"gpt", "flux"} : \E a \in GenArgs(o) : Called(o, a)

\* self._make_request returns a decoded response
RequestReturns ==
    /\ gpc = "request"
    /\ \E r \in Envelopes :
        /\ response' = r
        /\ gpc' = "check"
    /\ UNCHANGED <<op, args, payload, tasks, pil_images, image_urls, errors,
                   downloads, ret, gerror>>
    /\ UNCHANGED outsideGeneration

\* self._make_request raises: lines 178-182
RequestRaises ==
    /\ gpc = "request"
    /\ \E e \in RequestErrors :
        /\ gerror' = Rewrap(e)
        /\ gpc' = "raised"
    /\ UNCHANGED <<op, args, payload, response, tasks, pil_images, image_urls,
                   errors, downloads, ret>>
    /\ UNCHANGED outsideGeneration

\* lines 184-192 of gpt_image_generate_image
CheckBatch ==
    /\ op = "gpt"
    /\ gpc = "check"
    /\ LET c == CheckEnvelope(response)
       IN  IF c.t = "raise"
           THEN /\ gpc' = "raised"
                /\ gerror' = c.exc
                /\ UNCHANGED tasks
           ELSE /\ gpc' = "pool"
                /\ tasks' = [i \in DOMAIN c.urls |-> NewTask(c.urls[i])]
                /\ UNCHANGED gerror
    /\ UNCHANGED <<op, args, payload, response, pil_images, image_urls, errors,
                   downloads, ret>>
    /\ UNCHANGED outsideGeneration

\* with ThreadPoolExecutor(max_workers=len(resultsUrls)) as executor
OpenPool ==
    /\ gpc = "pool"
    /\ IF PoolOpens(Len(tasks))
       THEN gpc' = "submit" /\ UNCHANGED gerror
       ELSE gpc' = "raised" /\ gerror' = Error("ValueError", 0, <<>>)
    /\ UNCHANGED <<op, args, payload, response, tasks, pil_images, image_urls,
                   errors, downloads, ret>>
    /\ UNCHANGED outsideGeneration

\* executor.submit(thread_download_image, s) for the next s of resultsUrls;
\* after the last one the loop over as_completed starts
Submit ==
    /\ gpc = "submit"
    /\ LET i == CHOOSE k \in DOMAIN tasks :
                    /\ tasks[k].state = "unsubmitted"
                    /\ \A j \in 1..(k - 1) : tasks[j].state # "unsubmitted"
       IN  /\ tasks' = [tasks EXCEPT ![i].state = "queued"]
           /\ gpc' = IF i = Len(tasks) THEN "collect" ELSE "submit"
    /\ UNCHANGED <<op, args, payload, response, pil_images, image_urls, errors,
                   downloads, ret, gerror>>
    /\ UNCHANGED outsideGeneration

\* a worker thread takes task i and calls download_image(url)
TaskStart ==
    /\ gpc \in {"submit", "collect"}
    /\ \E i \in DOMAIN tasks : \E fate \in DownloadFates :
        /\ Runnable(tasks[i])
        /\ tasks' = [tasks EXCEPT ![i].state = "running", ![i].fate = fate]
        /\ downloads' = Append(downloads, tasks[i].url)
    /\ UNCHANGED <<op, args, payload, gpc, response, pil_images, image_urls,
                   errors, ret, gerror>>
    /\ UNCHANGED outsideGeneration

\* download_image ends for task i: thread_download_image returns or raises
TaskFinish ==
    /\ gpc \in {"submit", "collect"}
    /\ \E i \in DOMAIN tasks :
        /\ tasks[i].state = "running"
        /\ tasks' = [tasks EXCEPT ![i].state = "done",
                                  ![i].res = TaskResult(tasks, i)]
    /\ UNCHANGED <<op, args, payload, gpc, response, pil_images, image_urls,
                   errors, downloads, ret, gerror>>
    /\ UNCHANGED outsideGeneration

\* as_completed yields a finished future and the loop body handles it
Collect ==
    /\ gpc = "collect"
    /\ \E i \in DOMAIN tasks :
        /\ tasks[i].state = "done"
        /\ ~tasks[i].consumed
        /\ LET acc == CollectOne(Lists(pil_images, image_urls, errors), tasks[i].res)
           IN  /\ pil_images' = acc.images
               /\ image_urls' = acc.urls
               /\ errors' = acc.errors
        /\ tasks' = [tasks EXCEPT ![i].consumed = TRUE]
    /\ UNCHANGED <<op, args, payload, gpc, response, downloads, ret, gerror>>
    /\ UNCHANGED outsideGeneration

\* the with block is left and the three lists are returned
ReturnBatch ==
    /\ gpc = "collect"
    /\ MayReturn(tasks)
    /\ ret' = Lists(pil_images, image_urls, errors)
    /\ gpc' = "returned"
    /\ UNCHANGED <<op, args, payload, response, tasks, pil_images, image_urls,
                   errors, downloads, gerror>>
    /\ UNCHANGED outsideGeneration

\* lines 276-285 of flux_generate_image: the URL is checked and
\* download_image is called
CheckSingle ==
    /\ op = "flux"
    /\ gpc = "check"
    /\ LET c == CheckUrl(response)
       IN  IF c.t = "raise"
           THEN /\ gpc' = "raised"
                /\ gerror' = c.exc
                /\ UNCHANGED downloads
           ELSE /\ gpc' = "download"
                /\ downloads' = Append(downloads, c.urls[1])
                /\ UNCHANGED gerror
    /\ UNCHANGED <<op, args, payload, response, tasks, pil_images, image_urls,
                   errors, ret>>
    /\ UNCHANGED outsideGeneration

\* lines 285-295: download_image ends; the pair (image, url) is returned, or
\* GrsaiAPIError is raised by the handler
DownloadEnds ==
    /\ gpc = "download"
    /\ \E fate \in DownloadFates :
        LET r == ThreadDownloadImage(response.url, 1, fate)
        IN  IF r.ok
            THEN /\ ret' = Lists(<<r.image>>, <<r.url>>, <<>>)
                 /\ gpc' = "returned"
                 /\ UNCHANGED gerror
            ELSE /\ gerror' = r.exc
                 /\ gpc' = "raised"
                 /\ UNCHANGED ret
    /\ UNCHANGED <<op, args, payload, response, tasks, pil_images, image_urls,
                   errors, downloads>>
    /\ UNCHANGED outsideGeneration

GenNext ==
    \/ Build \/ RequestReturns \/ RequestRaises
    \/ CheckBatch \/ OpenPool \/ Submit \/ TaskStart \/ TaskFinish
    \/ Collect \/ ReturnBatch
    \/ CheckSingle \/ DownloadEnds

GenSpec == GenInit /\ [][GenNext]_vars

GenTypeOK ==
    /\ op \in {"gpt", "flux"}
    /\ gpc \in {"build", "request", "check", "pool", "submit", "collect",
                "download", "returned", "raised"}
    /\ \A i \in DOMAIN tasks :
         tasks[i].state \in {"unsubmitted", "queued", "running", "done"}

(***************************************************************************)
(* The lifetime of a client: GrsaiAPI(api_key), then calls of              *)
(* _make_request, one after the other.                                     *)
(***************************************************************************)
\* largest number of calls of _make_request on one client that is explored
MaxCalls == 2

\* the values passed as api_key
ClientKeys == {PyNone, PyStr(<<>>), PyStr(<<" ">>), PyStr(<<" ", " ">>),
               PyStr(KeySk), PyStr(KeyPadded)}

\* GrsaiAPIError("API密钥在初始化时不能为空")
EmptyApiKeyError == Error("EmptyApiKey", 0, <<>>)

ClientInit ==
    /\ config \in {<<>>} \cup {<<n>> : n \in 0..MaxConfigRetries}
    /\ max_retries = 0
    /\ attempt = 0
    /\ pc = "new"
    /\ outcome = NoOutcome
    /\ log = <<>>
    /\ result = ParseFailure
    /\ error = NoError
    /\ ctor_api_key \in ClientKeys
    /\ self_api_key = PyNone
    /\ sent = {}
    /\ calls = 0
    /\ GenIdle
    /\ NoGlue

\* GrsaiAPI.__init__
Construct ==
    /\ pc = "new"
    /\ IF KeyAccepted(ctor_api_key)
       THEN /\ self_api_key' = ctor_api_key
            /\ pc' = "ready"
            /\ UNCHANGED error
       ELSE /\ error' = EmptyApiKeyError
            /\ pc' = "refused"
            /\ UNCHANGED self_api_key
    /\ UNCHANGED <<config, max_retries, attempt, outcome, log, result>>
    /\ UNCHANGED <<ctor_api_key, sent, calls>>
    /\ UNCHANGED outsideRequest

\* _make_request is called on the client, after the previous call has ended
Call ==
    /\ pc \in {"ready", "returned", "raised"}
    /\ calls < MaxCalls
    /\ calls' = calls + 1
    /\ pc' = "start"
    /\ max_retries' = 0
    /\ attempt' = 0
    /\ outcome' = NoOutcome
    /\ log' = <<>>
    /\ result' = ParseFailure
    /\ error' = NoError
    /\ UNCHANGED <<config, ctor_api_key, self_api_key, sent>>
    /\ UNCHANGED outsideRequest

ClientNext == Construct \/ Call \/ Next

ClientSpec == ClientInit /\ [][ClientNext]_vars

(***************************************************************************)
(* Python integers of any size, as little-endian sequences of 16-bit       *)
(* limbs: the seed of a node goes up to 0xFFFFFFFFFFFFFFFF, and Python     *)
(* adds without overflow.                                                  *)
(***************************************************************************)
LimbBase == 65536

BigInt(a, b, c, d) == <<a, b, c, d, 0>>

BigZero   == BigInt(0, 0, 0, 0)
BigOne    == BigInt(1, 0, 0, 0)
Int32Max  == BigInt(65535, 32767, 0, 0)
UInt64Max == BigInt(65535, 65535, 65535, 65535)

\* x plus the small number k, added at limb p with carry
RECURSIVE BigAdd(_, _, _)
BigAdd(x, k, p) ==
    IF k = 0 \/ p > Len(x) THEN x
    ELSE LET t == x[p] + k
         IN  BigAdd([x EXCEPT ![p] = t % LimbBase], t \div LimbBase, p + 1)

\* seed + i
Plus(x, i) == BigAdd(x, i, 1)

(***************************************************************************)
(* The generation nodes: execute and _execute_generation.                  *)
(***************************************************************************)
\* "num_images": ([1, 2, 3, 4], ...)
NumImagesChoices == 1..4

\* "seed": ("INT", {"min": 0, "max": 0xFFFFFFFFFFFFFFFF}): zero, one, values
\* around 2^31 and the maximum
SeedInputs == {BigZero, BigOne, BigInt(65534, 32767, 0, 0), Int32Max, UInt64Max}

\* random.randint(1, 2147483647): both ends are possible values
RandIntValues == {BigOne, Int32Max}

\* seeds = [seed + i if seed != 0 else random.randint(...) for i in
\* range(num_images)]; draws are the values random.randint returns
MakeSeeds(s, n, draws) ==
    [i \in 1..n |-> IF s # BigZero THEN Plus(s, i - 1) ELSE draws[i]]

\* max_workers=min(num_images, 4)
MaxWorkers(n) == IF n < 4 THEN n ELSE 4

NodeClasses == {"FluxKontext_TextToImage", "FluxKontext_ImageToImage"}

\* the values default_config.get_api_key() may return
ConfigKeys == {PyNone, PyStr(<<" ">>), PyStr(KeySk)}

\* not grsai_api_key
Falsy(k) == k.ty = "NoneType" \/ (k.ty = "str" /\ k.s = <<>>)

\* what generate_single_image returns: the pair of flux_generate_image, or
\* the exception it caught
Pair(i)    == [ok |-> TRUE, image |-> Image(PyStr(UrlA), i), url |-> PyStr(UrlA)]
Caught     == [ok |-> FALSE, image |-> NoImage, url |-> PyNone]

\* GrsaiAPI(api_key=grsai_api_key) raises for a blank key, and then every
\* call ends in the handler; otherwise flux_generate_image returns or raises
SingleResults(k, i) == IF KeyAccepted(k) THEN {Pair(i), Caught} ELSE {Caught}

\* a future of the pool: runs counts the calls of generate_single_image
NewFuture(sd) == [seed |-> sd, state |-> "unsubmitted", runs |-> 0,
                  consumed |-> FALSE, res |-> Caught]

\* a loop body that drops the failures
NodeCollectOne_DropFailure(acc, res) ==
    IF res.ok
    THEN Lists(Append(acc.images, res.image), Append(acc.urls, res.url), acc.errors)
    ELSE acc

\* the body of the loop over as_completed: generate_single_image returns the
\* exception, so future.result() does not raise and isinstance(result,
\* Exception) decides
NodeCollectOne(acc, res) ==
    IF res.ok
    THEN Lists(Append(acc.images, res.image), Append(acc.urls, res.url), acc.errors)
    ELSE Lists(acc.images, acc.urls, Append(acc.errors, EntryFailed))

\* utils.pil_to_tensor: one batch entry per image
PilToTensor(imgs) == [i \in DOMAIN imgs |-> [tensor_of |-> imgs[i]]]

\* _create_error_result(error_message)
CreateErrorResult(msg) ==
    [failed |-> TRUE, images |-> <<>>, status |-> <<"failed: ">> \o msg]

ApiKeyErrorMessage == <<"api_key_error_message">>
PreparationFailed  == <<"Image-to-Image preparation failed: ">>
CannotConvert      == <<"Cannot convert input image.">>
AllFailed          == "All image generations failed."

\* f"All image generations failed.\n{'; '.join(errors)}"
AllFailedMessage(errs) == <<AllFailed>> \o errs

\* a status that always reports a number of failures
MentionsFailures_Always(errs) == TRUE

\* if errors:
MentionsFailures(errs) == errs # <<>>

\* final_status: the mode, success_count/num_images and, if there are
\* errors, their number
FinalStatus(cls, rs, n, errs) ==
    <<cls, "success: ", ToString(Len(rs)), "/", ToString(n)>>
    \o (IF MentionsFailures(errs) THEN <<"failed: ", ToString(Len(errs))>> ELSE <<>>)

\* lines 193-206 and 300-313
Policy(cls, rs, n, errs) ==
    IF rs = <<>> THEN CreateErrorResult(AllFailedMessage(errs))
    ELSE [failed |-> FALSE, images |-> PilToTensor(rs),
          status |-> FinalStatus(cls, rs, n, errs)]

NodeInit ==
    /\ ReqIdle
    /\ GenIdle
    /\ UpIdle
    /\ cfg_api_key \in ConfigKeys
    /\ node \in NodeClasses
    /\ num_images \in NumImagesChoices
    /\ input_seed \in SeedInputs
    /\ npc = "start"
    /\ seeds = <<>>
    /\ futures = <<>>
    /\ results_pil = <<>>
    /\ result_urls = <<>>
    /\ node_errors = <<>>
    /\ out = <<>>

outsideNode == <<reqVars, genVars, clientVars, upVars, cfg_api_key>>

\* execute: the key is read from the configuration
NodeEnter ==
    /\ npc = "start"
    /\ IF Falsy(cfg_api_key)
       THEN /\ out' = CreateErrorResult(ApiKeyErrorMessage)
            /\ npc' = "done"
       ELSE /\ npc' = IF node = "FluxKontext_ImageToImage" THEN "prepare"
                                                            ELSE "generate"
            /\ UNCHANGED out
    /\ UNCHANGED <<node, num_images, input_seed, seeds, futures, results_pil,
                   result_urls, node_errors>>
    /\ UNCHANGED outsideNode

\* FluxKontext_ImageToImage.execute, lines 264-283: the input image is
\* converted, saved and uploaded
Prepare ==
    /\ npc = "prepare"
    /\ \E o \in {"uploaded", "no image", "exception"} :
         CASE o = "uploaded"  -> npc' = "generate" /\ UNCHANGED out
           [] o = "no image"  -> /\ npc' = "done"
                                 /\ out' = CreateErrorResult(CannotConvert)
           [] o = "exception" -> /\ npc' = "done"
                                 /\ out' = CreateErrorResult(PreparationFailed)
    /\ UNCHANGED <<node, num_images, input_seed, seeds, futures, results_pil,
                   result_urls, node_errors>>
    /\ UNCHANGED outsideNode

\* _execute_generation: the pool is opened and the seeds are made
OpenNodePool ==
    /\ npc = "generate"
    /\ \E draws \in [1..num_images -> RandIntValues] :
         /\ seeds' = MakeSeeds(input_seed, num_images, draws)
         /\ futures' = [i \in 1..num_images |->
                           NewFuture(MakeSeeds(input_seed, num_images, draws)[i])]
    /\ npc' = "submit"
    /\ UNCHANGED <<node, num_images, input_seed, results_pil, result_urls,
                   node_errors, out>>
    /\ UNCHANGED outsideNode

\* executor.submit(generate_single_image, s) for the next s of seeds
NodeSubmit ==
    /\ npc = "submit"
    /\ LET i == CHOOSE k \in DOMAIN futures :
                    /\ futures[k].state = "unsubmitted"
                    /\ \A j \in 1..(k - 1) : futures[j].state # "unsubmitted"
       IN  /\ futures' = [futures EXCEPT ![i].state = "queued"]
           /\ npc' = IF i = Len(futures) THEN "collect" ELSE "submit"
    /\ UNCHANGED <<node, num_images, input_seed, seeds, results_pil,
                   result_urls, node_errors, out>>
    /\ UNCHANGED outsideNode

Running == {i \in DOMAIN futures : futures[i].state = "running"}

\* a worker of the pool calls generate_single_image(current_seed)
CallStart ==
    /\ npc \in {"submit", "collect"}
    /\ Cardinality(Running) < MaxWorkers(num_images)
    /\ \E i \in DOMAIN futures :
        /\ futures[i].state = "queued"
        /\ futures' = [futures EXCEPT ![i].state = "running",
                                      ![i].runs = futures[i].runs + 1]
    /\ UNCHANGED <<node, num_images, input_seed, npc, seeds, results_pil,
                   result_urls, node_errors, out>>
    /\ UNCHANGED outsideNode

\* generate_single_image returns
CallFinish ==
    /\ npc \in {"submit", "collect"}
    /\ \E i \in DOMAIN futures : \E r \in SingleResults(cfg_api_key, i) :
        /\ futures[i].state = "running"
        /\ futures' = [futures EXCEPT ![i].state = "done", ![i].res = r]
    /\ UNCHANGED <<node, num_images, input_seed, npc, seeds, results_pil,
                   result_urls, node_errors, out>>
    /\ UNCHANGED outsideNode

\* as_completed yields a finished future and the loop body handles it
NodeCollect ==
    /\ npc = "collect"
    /\ \E i \in DOMAIN futures :
        /\ futures[i].state = "done"
        /\ ~futures[i].consumed
        /\ LET acc == NodeCollectOne(Lists(results_pil, result_urls, node_errors),
                                     futures[i].res)
           IN  /\ results_pil' = acc.images
               /\ result_urls' = acc.urls
               /\ node_errors' = acc.errors
        /\ futures' = [futures EXCEPT ![i].consumed = TRUE]
    /\ UNCHANGED <<node, num_images, input_seed, npc, seeds, out>>
    /\ UNCHANGED outsideNode

\* the with block is left and _execute_generation returns the three lists
NodeReturn ==
    /\ npc = "collect"
    /\ MayReturn(futures)
    /\ npc' = "policy"
    /\ UNCHANGED <<node, num_images, input_seed, seeds, futures, results_pil,
                   result_urls, node_errors, out>>
    /\ UNCHANGED outsideNode

\* execute after _execute_generation
ApplyPolicy ==
    /\ npc = "policy"
    /\ out' = Policy(node, results_pil, num_images, node_errors)
    /\ npc' = "done"
    /\ UNCHANGED <<node, num_images, input_seed, seeds, futures, results_pil,
                   result_urls, node_errors>>
    /\ UNCHANGED outsideNode

NodeNext ==
    \/ NodeEnter \/ Prepare \/ OpenNodePool \/ NodeSubmit
    \/ CallStart \/ CallFinish \/ NodeCollect \/ NodeReturn \/ ApplyPolicy

NodeSpec == NodeInit /\ [][NodeNext]_vars

(***************************************************************************)
(* upload_file and upload_file_zh.                                         *)
(***************************************************************************)
\* a file that exists, and a path at which there is no file; the second,
\* passed as api_key, is a key without the prefix sk-
PathE == <<"e", ".", "j">>
PathM == <<"m">>

\* os.path.exists
Files == {PathE}
Exists(pth) == pth \in Files

\* the values passed as api_key and as file_path
UploadKeys  == {PyNone, PyStr(<<" ">>), PyStr(KeySk), PyStr(KeyPadded),
                PyStr(PathE), PyStr(PathM)}
UploadPaths == {<<>>, PathE, PathM}

\* lines 93-94: a single positional argument that is no key is the path
SwapArgs(k, pth) ==
    IF pth = <<>> /\ k.ty = "str" /\ k.s # <<>> /\ ~StartsWith(k.s, SkPrefix)
    THEN [file_path |-> k.s, api_key |-> PyNone]
    ELSE [file_path |-> pth, api_key |-> k]

\* lines 113-115: (api_key or "").strip(), else the configured key or ""
EffectiveKey(k, cfg) ==
    LET given == IF Falsy(k) THEN <<>> ELSE Strip(k.s)
    IN  IF given # <<>> THEN given
        ELSE IF Falsy(cfg) THEN <<>> ELSE cfg.s

\* a check that accepts every non-empty key
CredentialOk_NonEmpty(key) == key # <<>>

\* not (not effective_key or not effective_key.startswith("sk-"))
CredentialOk(key) == key # <<>> /\ StartsWith(key, SkPrefix)

\* index of the last "." of pth, 0 if there is none
RECURSIVE LastDot(_, _)
LastDot(pth, i) ==
    IF i = 0 THEN 0 ELSE IF pth[i] = "." THEN i ELSE LastDot(pth, i - 1)

\* os.path.splitext(file_path)[1].lstrip("."), or "png"
FileExtension(pth) ==
    LET d == LastDot(pth, Len(pth))
        ext == IF d > 1 THEN SubSeq(pth, d + 1, Len(pth)) ELSE <<>>
    IN  IF ext = <<>> THEN <<"p", "n", "g">> ELSE ext

\* result["data"] of a token negotiation
TokenData(u, k, d, t) == [url |-> u, key |-> k, domain |-> d, token |-> t]
NoToken == TokenData(<<>>, <<>>, <<>>, <<>>)

DomainA == <<"h", "t", "t", "p", ":", "a">>
DomainB == <<"h", "t", "t", "p", ":", "b">>
ObjectK == <<"k">>
ObjectL == <<"d", "/", "l">>

Tokens == {TokenData(<<"u">>, k, d, <<"t">>) : k \in {ObjectK, ObjectL},
                                              d \in {DomainA, DomainB}}

\* what the POST of get_upload_token meets: a JSON body with data, a JSON
\* body without data, a body that is no JSON, an HTTP error status, or a
\* transport exception
NegotiationOutcomes ==
    {[kind |-> "data", data |-> t] : t \in Tokens}
    \cup {[kind |-> k, data |-> NoToken] :
             k \in {"no data", "no json", "http error", "transport"}}

\* the exceptions that leave upload_file and upload_file_zh
CredentialError   == Error("ValueError", 0, ApiKeyErrorMessage)
FileMissing(pth)  == Error("FileNotFoundError", 0, <<"file does not exist: ">> \o pth)
NegotiationFailed == Error("RequestException", 0, <<"request failed: ">>)
ParseFailed       == Error("ValueError", 0, <<"response parsing failed: ">>)
TransferFailed    == Error("RequestException", 0, <<"file upload failed: ">>)
ReadFailed        == Error("IOError", 0, <<"file read failed: ">>)

\* get_upload_token and get_upload_token_zh: the exceptions an outcome can
\* end in.  response.json() raises a JSONDecodeError that, depending on the
\* version of requests, is or is not a RequestException, so either handler
\* may take it
GetUploadTokenRaises(o) ==
    CASE o.kind \in {"http error", "transport"} -> {NegotiationFailed}
      [] o.kind = "no json" -> {NegotiationFailed, ParseFailed}
      [] o.kind = "no data" -> {Error("KeyError", 0, <<"data">>)}
      [] OTHER -> {}

\* response.raise_for_status() raises HTTPError for 4xx and 5xx
RaisesForStatus(code) == code \in 400..599

\* what the request of the byte transfer meets: a status, or a transport
\* exception (status 0); open(file_path, "rb") may fail before it
TransferStatuses == {200, 204, 304, 403, 500}
TransferOutcomes ==
    {[kind |-> k, status |-> 0] : k \in {"open fails", "transport"}}
    \cup {[kind |-> "status", status |-> c] : c \in TransferStatuses}

\* a URL of the key alone
FileUrl_KeyOnly(domain, key) == <<"/">> \o key

\* file_url = domain + "/" + key
FileUrl(domain, key) == domain \o <<"/">> \o key

\* the method of the byte transfer
TransferMethod(f) == IF f = "upload_file" THEN "PUT" ELSE "POST"

\* an entry of the trace: a check or a network request and how it ended
Step(name, ok, method, status, data) ==
    [step |-> name, ok |-> ok, method |-> method, status |-> status, data |-> data]

UploadInit ==
    /\ ReqIdle
    /\ GenIdle
    /\ NodeIdle
    /\ cfg_api_key \in ConfigKeys
    /\ fn \in {"upload_file", "upload_file_zh"}
    /\ \E k \in UploadKeys : \E pth \in UploadPaths :
         /\ up_args = [api_key |-> k, file_path |-> pth]
         /\ up_api_key = k
         /\ file_path = pth
    /\ upc = "enter"
    /\ effective_key = <<>>
    /\ token = NoToken
    /\ trace = <<>>
    /\ up_ret = <<>>
    /\ up_error = NoError

outsideUpload == <<reqVars, genVars, clientVars, nodeVars, cfg_api_key>>

\* lines 93-96: the arguments are sorted out; without a path "" is returned
UpEnter ==
    /\ upc = "enter"
    /\ LET a == SwapArgs(up_api_key, file_path)
       IN  /\ up_api_key' = a.api_key
           /\ file_path' = a.file_path
           /\ upc' = IF a.file_path = <<>> THEN "returned" ELSE "credential"
    /\ UNCHANGED <<fn, up_args, effective_key, token, trace, up_ret, up_error>>
    /\ UNCHANGED outsideUpload

\* lines 113-118: the effective key is resolved and checked
ResolveKey ==
    /\ upc = "credential"
    /\ LET k == EffectiveKey(up_api_key, cfg_api_key)
       IN  /\ effective_key' = k
           /\ trace' = Append(trace, Step("credential", CredentialOk(k), "-", 0, NoToken))
           /\ IF CredentialOk(k)
              THEN upc' = "file" /\ UNCHANGED up_error
              ELSE upc' = "raised" /\ up_error' = CredentialError
    /\ UNCHANGED <<fn, up_args, up_api_key, file_path, token, up_ret>>
    /\ UNCHANGED outsideUpload

\* lines 121-122
CheckFile ==
    /\ upc = "file"
    /\ trace' = Append(trace, Step("file", Exists(file_path), "-", 0, NoToken))
    /\ IF Exists(file_path)
       THEN upc' = "negotiate" /\ UNCHANGED up_error
       ELSE upc' = "raised" /\ up_error' = FileMissing(file_path)
    /\ UNCHANGED <<fn, up_args, up_api_key, file_path, effective_key, token, up_ret>>
    /\ UNCHANGED outsideUpload

\* lines 130-133: get_upload_token sends its POST with the effective key and
\* the file extension, and result["data"] is read
Negotiate ==
    /\ upc = "negotiate"
    /\ \E o \in NegotiationOutcomes :
         /\ trace' = Append(trace, Step("negotiate", o.kind = "data", "POST",
                                        0, o.data))
         /\ IF o.kind = "data"
            THEN /\ token' = o.data
                 /\ upc' = "transfer"
                 /\ UNCHANGED up_error
            ELSE /\ up_error' \in GetUploadTokenRaises(o)
                 /\ upc' = "raised"
                 /\ UNCHANGED token
    /\ UNCHANGED <<fn, up_args, up_api_key, file_path, effective_key, up_ret>>
    /\ UNCHANGED outsideUpload

\* lines 136-158: the file is opened and its bytes are sent to the URL of the
\* token; the URL of the file is returned if raise_for_status does not raise
Transfer ==
    /\ upc = "transfer"
    /\ \E o \in TransferOutcomes :
         CASE o.kind = "open fails" ->
                /\ trace' = Append(trace, Step("open", FALSE, "-", 0, NoToken))
                /\ up_error' = ReadFailed
                /\ upc' = "raised"
                /\ UNCHANGED up_ret
           [] o.kind = "transport" ->
                /\ trace' = Append(trace, Step("transfer", FALSE,
                                               TransferMethod(fn), 0, NoToken))
                /\ up_error' = TransferFailed
                /\ upc' = "raised"
                /\ UNCHANGED up_ret
           [] OTHER ->
                /\ trace' = Append(trace, Step("transfer", ~RaisesForStatus(o.status),
                                               TransferMethod(fn), o.status, NoToken))
                /\ IF RaisesForStatus(o.status)
                   THEN /\ up_error' = TransferFailed
                        /\ upc' = "raised"
                        /\ UNCHANGED up_ret
                   ELSE /\ up_ret' = FileUrl(token.domain, token.key)
                        /\ upc' = "returned"
                        /\ UNCHANGED up_error
    /\ UNCHANGED <<fn, up_args, up_api_key, file_path, effective_key, token>>
    /\ UNCHANGED outsideUpload

UploadNext == UpEnter \/ ResolveKey \/ CheckFile \/ Negotiate \/ Transfer

UploadSpec == UploadInit /\ [][UploadNext]_vars

(***************************************************************************)
(* Properties.                                                             *)
(***************************************************************************)
HttpIndices == {i \in DOMAIN log : log[i].type = "http"}
HttpCount   == Cardinality(HttpIndices)
LastEntry   == log[Len(log)]

\* a body with its first 6 characters removed when they are "data: "
Unframed(b) ==
    IF Len(b) >= 6 /\ SubSeq(b, 1, 6) = <<"d", "a", "t", "a", ":", " ">>
    THEN SubSeq(b, 7, Len(b))
    ELSE b

\* the outcomes the retry policy names as retryable
RetryableMet == {"5xx"} \cup ExcClasses

\* C1: when the first HTTP attempt meets status 401 the call has failed with
\* the auth error, one HTTP attempt has been issued and nothing follows it
\* (no sleep, no further attempt).
C1_AuthFailsAfterOneAttempt ==
    (Len(log) >= 1 /\ log[1].met = "401")
        => /\ pc = "raised"
           /\ error.kind = "AuthError"
           /\ Len(log) = 1

\* C2: an attempt that meets status 429 is the last event of the call, which
\* has failed with the rate-limit error.
C2_RateLimitIsTerminal ==
    \A i \in DOMAIN log :
        log[i].met = "429"
            => /\ i = Len(log)
               /\ pc = "raised"
               /\ error.kind = "RateLimitError"

\* C3: an attempt that meets a status other than 200, 401, 429 and 5xx is the
\* last event of the call, which has failed with the request error carrying
\* that status code and the server's error field when the body has one.
C3_OtherStatusIsTerminal ==
    \A i \in DOMAIN log :
        log[i].met = "other-status"
            => /\ i = Len(log)
               /\ pc = "raised"
               /\ error.kind = "RequestError"
               /\ error.status = outcome.status_code
               /\ error.detail = ErrorDetail(outcome.text)

\* C4: when the attempt with index max_retries - 1 meets a 5xx status, it is
\* the last event of the call and the error that leaves the call is the
\* server error with that status code.
C4_LastServerErrorSurfaces ==
    (/\ Len(log) >= 1
     /\ LastEntry.type = "http"
     /\ LastEntry.met = "5xx"
     /\ LastEntry.attempt = max_retries - 1)
        => /\ pc = "raised"
           /\ error.kind = "ServerError"
           /\ error.status = outcome.status_code

\* C5: every sleep directly follows a retryable failed attempt with index
\* a < max_retries - 1, lasts 2^a seconds and is followed by nothing but
\* attempt a + 1; so no sleep is first in the log, follows the last attempt or
\* follows a successful attempt.
C5_SleepOnlyAfterRetryable ==
    \A i \in DOMAIN log :
        log[i].type = "sleep"
            => /\ i > 1
               /\ log[i - 1].type = "http"
               /\ log[i - 1].attempt = log[i].attempt
               /\ log[i - 1].met \in RetryableMet
               /\ log[i].attempt < max_retries - 1
               /\ log[i].dur = 2 ^ log[i].attempt
               /\ i < Len(log) => /\ log[i + 1].type = "http"
                                  /\ log[i + 1].attempt = log[i].attempt + 1

\* C6: the number of HTTP attempts of a call never exceeds the configured
\* max_retries (3 when the configuration has no entry).
C6_AttemptsBounded ==
    HttpCount <= (IF config = <<>> THEN 3 ELSE config[1])

C6_Witness ==
    /\ config = <<>>
    /\ HttpCount = 3
    /\ pc = "raised"

\* C7: the call has returned only if its latest attempt met status 200 with a
\* body that decodes as JSON; the returned value is the decoding of that body
\* and that attempt is the last event of the call.
C7_ReturnOnlyOnDecoded200 ==
    pc = "returned"
        => /\ outcome.exc = "none"
           /\ outcome.status_code = 200
           /\ result.ok
           /\ result = JsonLoads(Unframed(outcome.text))
           /\ LastEntry.type = "http"
           /\ LastEntry.met = "200"
           /\ LastEntry.attempt = attempt

C7_Witness ==
    /\ pc = "returned"
    /\ HttpCount = 2
    /\ outcome.text = ObjectA1

\* C8: an attempt that meets status 200 with a body that is not JSON is the
\* last event of the call, which has failed: no attempt follows a decode
\* failure and the call cannot return after one.
C8_DecodeFailurePropagates ==
    \A i \in DOMAIN log :
        log[i].met = "200-undecodable"
            => /\ i = Len(log)
               /\ pc = "raised"

\* C9: a 200 body that begins with "data: " is decoded as the body without
\* its first 6 characters, the literal being removed once; any other body is
\* decoded as it is.  The call returns that decoding, and does not return
\* when that text is not JSON.
C9_FramingStrippedOnce ==
    (pc \in {"returned", "raised", "sleeping"}
     /\ outcome.exc = "none" /\ outcome.status_code = 200)
        => IF JsonLoads(Unframed(outcome.text)).ok
           THEN pc = "returned" /\ result = JsonLoads(Unframed(outcome.text))
           ELSE pc # "returned"

C9_Witness ==
    /\ pc = "returned"
    /\ outcome.text = DataPrefix \o <<" ">> \o ObjectA1 \o <<" ">>
    /\ result.val = ObjectA1

\* C10: an attempt that ends with an exception of the request is followed by
\* a sleep when its index is below max_retries - 1; when its index is
\* max_retries - 1 the call has failed with the error of that exception: the
\* timeout error for a timeout, the connection error for a connection
\* failure, the generic transport error carrying the cause otherwise.
C10_TransportFailureRetriedThenSurfaced ==
    \A i \in DOMAIN log :
        (log[i].type = "http" /\ log[i].met \in ExcClasses)
            => IF log[i].attempt < max_retries - 1
               THEN /\ i < Len(log)
                    /\ log[i + 1].type = "sleep"
                    /\ \/ i + 1 = Len(log) /\ pc \in {"sleeping", "loop"}
                       \/ /\ i + 2 <= Len(log)
                          /\ log[i + 2].type = "http"
                          /\ log[i + 2].attempt = log[i].attempt + 1
               ELSE /\ i = Len(log)
                    /\ pc = "raised"
                    /\ outcome.exc = log[i].met
                    /\ error.kind =
                         (CASE log[i].met \in {"requests.Timeout", "requests.ConnectTimeout"}
                                 -> "TimeoutError"
                            [] log[i].met = "requests.ConnectionError"
                                 -> "ConnectionError"
                            [] OTHER -> "TransportError")
                    /\ error.kind = "TransportError" => error.cause = log[i].met

C10_Witness ==
    /\ pc = "raised"
    /\ HttpCount = 3
    /\ log[1].met = "requests.Timeout"
    /\ log[3].met = "requests.ConnectionError"
    /\ LastEntry.met = "Exception"
    /\ error.kind = "TransportError"

\* C11: a finished call has failed with the error raised after the loop
\* exactly when max_retries <= 0, and then no HTTP attempt has been issued;
\* with max_retries >= 1 the last pass of the loop returns or raises itself.
C11_ExhaustedOnlyWithoutAttempts ==
    pc \in {"returned", "raised"}
        => /\ (error.kind = "RetriesExhausted") <=> (max_retries <= 0)
           /\ error.kind = "RetriesExhausted" => HttpCount = 0
           /\ max_retries >= 1 => /\ HttpCount >= 1
                                  /\ LastEntry.type = "http"

C11_Witness ==
    /\ pc = "raised"
    /\ error.kind = "RetriesExhausted"
    /\ config = <<0>>
    /\ log = <<>>

C11_WitnessLastPass ==
    /\ pc = "raised"
    /\ max_retries = 3
    /\ HttpCount = 3
    /\ error.kind # "RetriesExhausted"

\* the payload key of each optional parameter of each method
OptionalKeyOf ==
    [gpt |-> [size |-> "size", variants |-> "variants"],
     flux |-> [seed |-> "seed", aspect_ratio |-> "aspectRatio",
               output_format |-> "output_format",
               safety_tolerance |-> "safetyTolerance",
               prompt_upsampling |-> "promptUpsampling",
               guidance_scale |-> "guidance",
               num_inference_steps |-> "steps"]]

Supplied(v) == v.ty # "NoneType" /\ ~(v.ty = "str" /\ v.s = <<>>)

\* C12: the keys of the built payload are model, prompt, urls, shutProgress
\* and the key of each optional parameter whose value is neither None nor the
\* empty string (0, 0.0 and False are included); each key carries the value
\* that was passed.
C12_PayloadKeys ==
    gpc = "request"
        => LET table == OptionalKeyOf[op]
               given == {q \in DOMAIN table : Supplied(args[q])}
           IN  /\ DOMAIN payload =
                    {"model", "prompt", "urls", "shutProgress"}
                        \cup {table[q] : q \in given}
               /\ \A q \in given : payload[table[q]] = args[q]
               /\ payload["model"] = args.model
               /\ payload["prompt"] = args.prompt
               /\ payload["urls"] = args.urls
               /\ payload["shutProgress"] = PyBool(TRUE)

C12_Witness ==
    /\ gpc = "request"
    /\ op = "flux"
    /\ args.seed = PyInt(0)
    /\ args.prompt_upsampling = PyBool(FALSE)
    /\ args.guidance_scale = PyFloat(0)
    /\ args.aspect_ratio = PyStr(<<>>)
    /\ args.output_format = PyNone
    /\ DOMAIN payload = {"model", "prompt", "urls", "shutProgress", "seed",
                         "promptUpsampling", "guidance", "steps"}

\* a response of the batch endpoint that carries a list of result URLs
HasResultUrls(r) ==
    /\ r.received /\ r.isDict
    /\ {"status", "results"} \subseteq r.keys
    /\ r.status = PyStr(<<"s", "u", "c", "c", "e", "e", "d", "e", "d">>)
    /\ r.resultsIsList
    /\ \A i \in DOMAIN r.results : r.results[i].hasUrl

Finished == gpc \in {"returned", "raised"}

\* the tasks whose own download gives an image, and the others
Downloadable == {i \in DOMAIN tasks : tasks[i].fate = "image"}
Undownloadable == {i \in DOMAIN tasks : tasks[i].fate \in {"none", "timeout"}}

\* number of places of the sequence q that hold x
Count(q, x) == Cardinality({j \in DOMAIN q : q[j] = x})

\* C13: for a list of N result URLs of which k downloads succeed, the call
\* returns k images, k URLs and N - k failure entries.
C13_CountsAddUp ==
    (op = "gpt" /\ Finished /\ HasResultUrls(response))
        => /\ gpc = "returned"
           /\ Len(ret.images) = Cardinality(Downloadable)
           /\ Len(ret.urls) = Cardinality(Downloadable)
           /\ Len(ret.errors) = Len(response.results) - Cardinality(Downloadable)
           /\ Len(ret.images) + Len(ret.errors) = Len(response.results)

\* the counts of C13 for the lists that are not empty
C13_CountsAddUpFromOne ==
    (op = "gpt" /\ Finished /\ HasResultUrls(response) /\ Len(response.results) >= 1)
        => /\ gpc = "returned"
           /\ Len(ret.images) = Cardinality(Downloadable)
           /\ Len(ret.urls) = Cardinality(Downloadable)
           /\ Len(ret.errors) = Len(response.results) - Cardinality(Downloadable)

\* C14: when the call is over every download task it spawned has finished:
\* none is queued or running, whether or not some of them failed, and a call
\* that returned has run one task for each result URL.
C14_ReturnsAfterAllTasks ==
    (op = "gpt" /\ Finished)
        => /\ \A i \in DOMAIN tasks : tasks[i].state = "done"
           /\ gpc = "returned" => /\ Len(tasks) = Len(response.results)
                                  /\ Len(downloads) = Len(response.results)

C14_Witness ==
    /\ op = "gpt"
    /\ gpc = "returned"
    /\ Len(tasks) = 3
    /\ ~tasks[1].res.ok
    /\ tasks[2].res.ok
    /\ tasks[3].res.ok
    /\ ret.errors # <<>>
    /\ ret.urls[1] = tasks[3].url

\* C15: every task whose own download gives an image is among the successes
\* of the returned result, whichever other tasks fail and in whichever order
\* the tasks end; every task that has ended holds the outcome of its own
\* download.
C15_SiblingsIndependent ==
    /\ \A i \in DOMAIN tasks :
         tasks[i].state = "done" => (tasks[i].res.ok <=> tasks[i].fate = "image")
    /\ (op = "gpt" /\ gpc = "returned")
         => \A i \in Downloadable :
              \E j \in DOMAIN ret.images :
                 /\ ret.images[j] = Image(tasks[i].url, i)
                 /\ ret.urls[j] = tasks[i].url

C15_Witness ==
    /\ op = "gpt"
    /\ gpc = "returned"
    /\ Len(tasks) = 3
    /\ tasks[1].fate = "timeout"
    /\ tasks[2].fate = "image"
    /\ tasks[3].fate = "none"
    /\ ret.urls = <<tasks[2].url>>
    /\ Len(ret.errors) = 2

\* C16: the lists are written only after all download tasks have ended.
C16_WrittenOnlyAfterJoin ==
    (pil_images # <<>> \/ image_urls # <<>> \/ errors # <<>>)
        => \A i \in DOMAIN tasks : tasks[i].state = "done"

\* C16 as amended: the lists hold one entry for each future the loop over
\* as_completed has handled, and a future is handled only after its own
\* task has ended.
C16_WrittenPerFinishedTask ==
    /\ \A i \in DOMAIN tasks : tasks[i].consumed => tasks[i].state = "done"
    /\ Len(pil_images) =
         Cardinality({i \in DOMAIN tasks : tasks[i].consumed /\ tasks[i].res.ok})
    /\ Len(image_urls) = Len(pil_images)
    /\ Len(errors) =
         Cardinality({i \in DOMAIN tasks : tasks[i].consumed /\ ~tasks[i].res.ok})

C16_Witness ==
    /\ gpc = "collect"
    /\ Len(pil_images) = 1
    /\ Len(errors) = 1
    /\ \E i \in DOMAIN tasks : tasks[i].state = "running"

\* C17: in the returned result the two lists have the same length, the image
\* at each index was downloaded from the URL at that index, and the URLs are,
\* with their multiplicities, the result URLs whose download succeeded.
C17_PairsAndMultiset ==
    (op = "gpt" /\ gpc = "returned")
        => /\ Len(ret.images) = Len(ret.urls)
           /\ \A j \in DOMAIN ret.images : ret.images[j].src = ret.urls[j]
           /\ \A u \in {tasks[i].url : i \in DOMAIN tasks} \cup {ret.urls[j] : j \in DOMAIN ret.urls} :
                Count(ret.urls, u)
                    = Cardinality({i \in Downloadable : response.results[i].url = u})

C17_Witness ==
    /\ op = "gpt"
    /\ gpc = "returned"
    /\ Len(tasks) = 3
    /\ tasks[1].url = PyStr(UrlA) /\ tasks[1].fate = "image"
    /\ tasks[2].url = PyStr(UrlB) /\ tasks[2].fate = "none"
    /\ tasks[3].url = PyStr(UrlB) /\ tasks[3].fate = "image"
    /\ ret.urls = <<PyStr(UrlB), PyStr(UrlA)>>

\* C18: the returned failure list is the same fixed entry repeated once per
\* failed download: it depends on how many downloads failed and on nothing
\* else (not on the cause, not on the URL).
C18_GenericFailureEntries ==
    (op = "gpt" /\ gpc = "returned")
        => ret.errors = [j \in 1..Cardinality(Undownloadable) |-> "generation exception"]

C18_Witness ==
    /\ op = "gpt"
    /\ gpc = "returned"
    /\ Len(tasks) = 2
    /\ tasks[1].url # tasks[2].url
    /\ tasks[1].fate = "none"
    /\ tasks[2].fate = "timeout"
    /\ Len(ret.errors) = 2

\* the value is a str that starts with "http"
LooksLikeUrl(v) ==
    /\ v.ty = "str"
    /\ Len(v.s) >= 4
    /\ SubSeq(v.s, 1, 4) = <<"h", "t", "t", "p">>

\* C19: in flux_generate_image, once the url value of the response has been
\* looked at: if it is not a str starting with "http" the call has failed
\* with the invalid-URL error and download_image was never called; otherwise
\* download_image is called once, with that URL, and when it fails the call
\* fails with GrsaiAPIError and no failure list is produced.
C19_SingleUrlChecked ==
    (op = "flux" /\ gpc \in {"download", "returned", "raised"}
     /\ response.received /\ response.isDict /\ "url" \in response.keys)
        => IF ~LooksLikeUrl(response.url)
           THEN /\ gpc = "raised"
                /\ gerror.kind = "InvalidUrlFormat"
                /\ downloads = <<>>
           ELSE /\ downloads = <<response.url>>
                /\ errors = <<>>
                /\ gpc = "returned" => /\ ret.urls = <<response.url>>
                                       /\ ret.errors = <<>>
                /\ gpc = "raised" => /\ gerror.kind = "DownloadProcessingError"
                                     /\ ret = <<>>

C19_Witness ==
    /\ op = "flux"
    /\ gpc = "raised"
    /\ response.received
    /\ response.url = PyStr(<<"h", "t", "t">>)
    /\ gerror.kind = "InvalidUrlFormat"
    /\ downloads = <<>>

C19_WitnessDownloadFails ==
    /\ op = "flux"
    /\ gpc = "raised"
    /\ downloads = <<PyStr(UrlA)>>
    /\ gerror.cause = "timeout"

\* C20: every exception that leaves one of the two generation methods is a
\* GrsaiAPIError.
C20_OnlyGrsaiAPIError ==
    gpc = "raised"
        => gerror.kind \in {"AuthError", "RateLimitError", "ServerError",
                            "RequestError", "TimeoutError", "ConnectionError",
                            "TransportError", "RetriesExhausted",
                            "GenerationFailed", "InvalidUrlFormat",
                            "DownloadReturnedNone", "DownloadProcessingError"}

\* how often the URL u has been handed to download_image
Handed(u) == Count(downloads, u)

\* how often the URL u is in resultsUrls
Listed(u) == Cardinality({i \in DOMAIN tasks : tasks[i].url = u})

\* C25: downloads are not retried.  In a call of gpt_image_generate_image no
\* result URL is handed to download_image more often than it is listed in
\* resultsUrls, whatever the downloads did, and when the call returns every
\* listed URL has been handed over exactly as often as it is listed; in a
\* call of flux_generate_image download_image is called at most once.
C25_NoDownloadRetried ==
    /\ op = "gpt" =>
          /\ Len(downloads) <= Len(tasks)
          /\ \A u \in {PyStr(UrlA), PyStr(UrlB)} : Handed(u) <= Listed(u)
          /\ gpc = "returned" =>
                \A u \in {PyStr(UrlA), PyStr(UrlB)} : Handed(u) = Listed(u)
    /\ op = "flux" => Len(downloads) <= 1

\* a batch call has returned although a download failed, and a single call
\* would be witnessed by C19_WitnessDownloadFails
C25_Witness ==
    /\ op = "gpt"
    /\ gpc = "returned"
    /\ Len(tasks) = 2
    /\ Len(downloads) = 2
    /\ Len(ret.errors) = 1

\* C26: in gpt_image_generate_image a response whose status is not
\* "succeeded" ends the call with GrsaiAPIError and without any download;
\* downloads start only after a response with status "succeeded".
C26_FailedStatusRaisesGrsaiAPIError ==
    /\ (/\ op = "gpt"
        /\ Finished
        /\ response.received
        /\ response.isDict
        /\ "status" \in response.keys
        /\ ~PyEq(response.status, PyStr(TextSucceeded)))
       => /\ gpc = "raised"
          /\ IsGrsaiAPIError(gerror)
          /\ downloads = <<>>
    /\ (op = "gpt" /\ downloads # <<>>)
       => /\ response.received
          /\ PyEq(response.status, PyStr(TextSucceeded))

\* C27: a "succeeded" response with an empty results list makes
\* gpt_image_generate_image return three empty lists.
C27_EmptyResultsReturnEmptyLists ==
    (/\ op = "gpt"
     /\ Finished
     /\ response = Succeeded(<<>>))
    => /\ gpc = "returned"
       /\ ret = Lists(<<>>, <<>>, <<>>)

\* empty or nothing but whitespace, or no string at all
BlankKey(k) == k.ty # "str" \/ \A i \in DOMAIN k.s : k.s[i] = " "

\* C24: a client is never constructed from an empty or whitespace-only
\* api_key (the constructor raises GrsaiAPIError instead), self.api_key is
\* the key given to the constructor for as long as the client lives, and
\* every HTTP attempt of every call of _make_request carries the header
\* Authorization: "Bearer " followed by exactly that key.
C24_CredentialFixed ==
    /\ BlankKey(ctor_api_key) =>
          /\ pc \in {"new", "refused"}
          /\ self_api_key = PyNone
          /\ sent = {}
    /\ pc = "refused" => BlankKey(ctor_api_key) /\ error = EmptyApiKeyError
    /\ pc \notin {"new", "refused"} => self_api_key = ctor_api_key
    /\ sent \subseteq {Bearer \o ctor_api_key.s}

\* the second call on a client made from a key with blanks around it is
\* retrying: attempts of both calls have gone out with the key as given
C24_Witness ==
    /\ ctor_api_key = PyStr(KeyPadded)
    /\ calls = 2
    /\ attempt = 1
    /\ pc = "waiting"
    /\ sent = {Bearer \o KeyPadded}

\* the constructor has refused a key of blanks
C24_WitnessRefused ==
    /\ ctor_api_key = PyStr(<<" ", " ">>)
    /\ pc = "refused"

\* _execute_generation has returned its three lists
Generated == npc \in {"policy", "done"} /\ futures # <<>>

\* position of the token x in the status q, 0 if it is not there
PosOf(q, x) == IF \E i \in DOMAIN q : q[i] = x
               THEN CHOOSE i \in DOMAIN q : q[i] = x ELSE 0

\* C21: the policy of execute on the lists of _execute_generation.  The
\* result is the error result "All image generations failed" exactly when
\* the success list is empty (and every other error result of execute comes
\* from before the generation); otherwise the images are returned with a
\* status reporting success_count/num_images, which mentions a number of
\* failures, the length of the failure list, exactly when that list is not
\* empty.
C21_CallerPolicy ==
    npc = "done" =>
      /\ (out.failed /\ PosOf(out.status, AllFailed) # 0)
            <=> (Generated /\ results_pil = <<>>)
      /\ (Generated /\ results_pil # <<>>) =>
            /\ ~out.failed
            /\ Len(out.images) = Len(results_pil)
            /\ LET at == PosOf(out.status, "success: ")
               IN  /\ at # 0
                   /\ out.status[at + 1] = ToString(Len(results_pil))
                   /\ out.status[at + 2] = "/"
                   /\ out.status[at + 3] = ToString(num_images)
            /\ (PosOf(out.status, "failed: ") # 0) <=> (node_errors # <<>>)
            /\ node_errors # <<>> =>
                  out.status[PosOf(out.status, "failed: ") + 1]
                      = ToString(Len(node_errors))

\* a degraded success: three images asked for, two made, one failure
C21_Witness ==
    /\ npc = "done"
    /\ num_images = 3
    /\ Len(results_pil) = 2
    /\ Len(node_errors) = 1
    /\ ~out.failed

\* every generation failed and execute has returned the error result
C21_WitnessAllFailed ==
    /\ npc = "done"
    /\ num_images = 2
    /\ Len(node_errors) = 2
    /\ out.failed

\* min(num_images, 4)
Width == IF num_images <= 4 THEN num_images ELSE 4

\* C28: _execute_generation makes exactly num_images generation calls, one
\* per seed, with at most min(num_images, 4) of them running at a time; it
\* returns only when all of them have ended, and then results and urls have
\* the same length and results and errors together have num_images entries.
C28_FanOutCounts ==
    /\ Len(futures) \in {0, num_images}
    /\ \A i \in DOMAIN futures : futures[i].runs <= 1
    /\ Cardinality(Running) <= Width
    /\ Generated =>
          /\ Len(futures) = num_images
          /\ \A i \in DOMAIN futures :
                futures[i].runs = 1 /\ futures[i].state = "done"
          /\ Len(results_pil) = Len(result_urls)
          /\ Len(results_pil) + Len(node_errors) = num_images

\* four calls in flight at once, and later a return with mixed outcomes
C28_Witness ==
    /\ num_images = 4
    /\ npc = "policy"
    /\ Len(results_pil) = 3
    /\ Len(node_errors) = 1

\* all four calls are running at the same time
C28_WitnessInFlight ==
    /\ num_images = 4
    /\ Cardinality(Running) = 4

\* 1 <= x <= 2147483647
InInt32Range(x) ==
    /\ x[3] = 0 /\ x[4] = 0 /\ x[5] = 0
    /\ x[2] <= 32767
    /\ x # BigZero

\* C29: every seed handed to generate_single_image, and so to the API, lies
\* in 1..2147483647.
C29_SeedsIn32Bits ==
    \A i \in DOMAIN futures : futures[i].runs > 0 => InInt32Range(futures[i].seed)

\* drawn seeds, which are in the range, have been passed to the API
C29_DrawnSeedsPassed ==
    /\ input_seed = BigZero
    /\ num_images = 2
    /\ \A i \in DOMAIN futures : futures[i].runs = 1
    /\ Generated

UploadEnded == upc \in {"returned", "raised"}

LastStep == trace[Len(trace)]

\* the entries of the trace with the given step
StepsOf(name) == {i \in DOMAIN trace : trace[i].step = name}

\* the errors of the four failure modes are different exceptions
FourErrorsDiffer ==
    \A pth \in UploadPaths :
      Cardinality({CredentialError, FileMissing(pth), NegotiationFailed,
                   TransferFailed}) = 4

\* C22: the failure modes of upload_file and upload_file_zh stay apart.  A
\* call that ends because the credential is missing or does not start with
\* sk-, because there is no file at the path, because the token negotiation
\* failed in transport, or because the byte transfer failed in transport,
\* raises an exception of its own, different from the other three; and a
\* value is returned only for a file that exists and was transferred, never
\* for a path without a file.
C22_UploadFailuresDistinct ==
    /\ FourErrorsDiffer
    /\ UploadEnded =>
          /\ upc = "returned" =>
                /\ Exists(file_path)
                /\ trace # <<>>
                /\ LastStep.step = "transfer"
                /\ LastStep.ok
          /\ (trace # <<>> /\ ~LastStep.ok) =>
                /\ upc = "raised"
                /\ LastStep.step = "credential" => up_error = CredentialError
                /\ LastStep.step = "file" => up_error = FileMissing(file_path)
                /\ (LastStep.step = "negotiate" /\ LastStep.data = NoToken
                     /\ up_error.kind = "RequestException")
                      => up_error = NegotiationFailed
                /\ LastStep.step = "transfer" => up_error = TransferFailed

ValidCredential(key) ==
    Len(key) >= 3 /\ key[1] = "s" /\ key[2] = "k" /\ key[3] = "-"

StepRank(name) ==
    CASE name = "credential" -> 1
      [] name = "file" -> 2
      [] name = "negotiate" -> 3
      [] name = "open" -> 4
      [] name = "transfer" -> 4

\* C30: the steps of upload_file and upload_file_zh come in the order
\* credential check, file check, token negotiation, byte transfer, each at
\* most once, and a failed step is the last one.  A network request is made
\* only with a credential that starts with sk- and for a file that exists,
\* and the transfer request only after a negotiation that succeeded.
C30_UploadStepsInOrder ==
    /\ \A i \in DOMAIN trace :
          /\ StepRank(trace[i].step) = i
          /\ i < Len(trace) => trace[i].ok
    /\ (trace # <<>> /\ ~LastStep.ok) => upc = "raised"
    /\ \A i \in StepsOf("negotiate") \cup StepsOf("transfer") :
          /\ ValidCredential(effective_key)
          /\ file_path \in Files
    /\ \A i \in StepsOf("transfer") :
          \E j \in StepsOf("negotiate") : j < i /\ trace[j].ok

\* both requests have been made, in this order, and the transfer failed
C30_Witness ==
    /\ Len(trace) = 4
    /\ trace[3].step = "negotiate"
    /\ trace[4].step = "transfer"
    /\ ~trace[4].ok
    /\ upc = "raised"

\* the call ended at the file check without any request
C30_WitnessNoFile ==
    /\ Len(trace) = 2
    /\ ~trace[2].ok
    /\ upc = "raised"
    /\ up_error = FileMissing(PathM)

\* the call has ended
Terminated == pc \in {"returned", "raised"}

\* max_retries as the configuration gives it
ConfiguredRetries == IF config = <<>> THEN 3 ELSE config[1]

\* C31: a call of _make_request ends.  If every HTTP call ends and every
\* sleep ends, the call eventually returns or raises; it returns a decoded
\* body or raises GrsaiAPIError, and on the way it makes no more than
\* max_retries attempts, each followed by at most one sleep, so it cannot
\* retry forever.
C31_MakeRequestTerminates ==
    /\ <>Terminated
    /\ [](pc = "returned" => result.ok)
    /\ [](pc = "raised" => error.kind \in GrsaiKinds)
    /\ [](Len(log) <= 2 * ConfiguredRetries)

\* the call has ended after using all its attempts and both sleeps: the
\* longest run a call with three attempts can make
C31_Witness ==
    /\ Terminated
    /\ max_retries = 3
    /\ Len(log) = 5
    /\ attempt = 2

====
